---- MODULE Spec2Model ----
(***************************************************************************)
(* Model of src/supabase-client.js: the authAPI, contentAPI and adminAPI   *)
(* function groups over the hosted backend (auth session, the tables       *)
(* paginas, pagina_historial and profiles).  Every `await` of a remote     *)
(* call is one step; an operation with several awaits is several steps,    *)
(* so that operations of different clients interleave at the awaits.       *)
(***************************************************************************)
EXTENDS Integers, Sequences, FiniteSets, TLC

\* ---------------------------------------------------------------- bounds
MaxCalls        == 1   \* invocations started in a behaviour of Spec, SpecHistory
MaxContentCalls == 2   \* invocations started in a behaviour of SpecContent
MaxAdminCalls   == 2   \* invocations started in a behaviour of SpecAdmin
MaxTime         == 2   \* timestamps a client clock can produce: 1..MaxTime
MaxHist         == 6   \* rows of pagina_historial per (page name, time)

\* ------------------------------------------------------- program constants
HistoryLimit == 10     \* .limit(10)

Clients   == {"c1", "c2"}
UserIds   == {"u1", "u2"}
NoUser    == "none"
Roles     == {"admin", "user", "editor"}
PageNames == {"home", "about"}
Contents  == {"<p>hi</p>", "<p>bye</p>"}
Envs      == {"browser", "node"}
Times     == 1..MaxTime
HistTimes == {1, 2}
Faults    == {"ok", "error", "throw"}

\* --------------------------------------------------------- values of JS
Null == [null |-> TRUE]

User(id) == [id |-> id, email |-> id]

\* error objects: a code (undefined for a JS Error) and a message
ErrNoRows   == [code |-> "PGRST116", message |-> "JSON object requested, multiple (or no) rows returned"]
ErrDb       == [code |-> "42501", message |-> "permission denied"]
ErrAuth     == [code |-> "undefined", message |-> "Auth session missing!"]
ErrCreds    == [code |-> "undefined", message |-> "Invalid login credentials"]
ErrNetwork  == [code |-> "undefined", message |-> "fetch failed"]
ErrType     == [code |-> "undefined", message |-> "TypeError: cannot read properties of null"]
ErrRef      == [code |-> "undefined", message |-> "ReferenceError: window is not defined"]
Error(msg)  == [code |-> "undefined", message |-> msg]

\* outcome of an awaited remote call: resolved with {data, error} or rejected
Resolve(data, error) == [kind |-> "resolve", data |-> data, error |-> error]
Reject(error)        == [kind |-> "reject", data |-> Null, error |-> error]

\* completion of a function body: return of a value, or a throw
Return(value) == [kind |-> "return", value |-> value, error |-> Null]
Throw(error)  == [kind |-> "throw", value |-> Null, error |-> error]

VARIABLES
  session,           \* supabase.auth: the signed-in user id of each client
  profiles,          \* table profiles: id -> row
  paginas,           \* table paginas: set of rows
  pagina_historial,  \* table pagina_historial: (page name, time) -> number of rows
  lastSaved,         \* page name -> content of the last save that succeeded,
                     \* and how many saves of the name have succeeded
  op,                \* the multi-await operation each client has in flight
  res,               \* the last completed operation and what its caller received
  calls              \* invocations started so far

vars == <<session, profiles, paginas, pagina_historial, lastSaved, op, res, calls>>


\* ------------------------------------------------------------------------
\* The remote platform, as the calls of the source use it.  f is what the
\* round trip does: "ok", "error" (resolved with an error) or "throw".
\* ------------------------------------------------------------------------

\* supabase.auth.signUp: the account of `email` with a session, or an error
auth_signUp(email, f) ==
  IF f = "throw" THEN Reject(ErrNetwork)
  ELSE IF f = "error"
       THEN Resolve([user |-> Null, session |-> Null], ErrCreds)
       ELSE Resolve([user |-> User(email), session |-> User(email)], Null)

\* supabase.auth.signInWithPassword
auth_signInWithPassword(email, f) ==
  IF f = "throw" THEN Reject(ErrNetwork)
  ELSE IF f = "error"
       THEN Resolve([user |-> Null, session |-> Null], ErrCreds)
       ELSE Resolve([user |-> User(email), session |-> User(email)], Null)

\* supabase.auth.signOut resolves with {error} only
auth_signOut(f) ==
  IF f = "throw" THEN Reject(ErrNetwork)
  ELSE IF f = "error" THEN Resolve(Null, ErrAuth)
       ELSE Resolve(Null, Null)

\* supabase.auth.getSession: absence of a session is not an error
auth_getSession(sess, f) ==
  IF f = "throw" THEN Reject(ErrNetwork)
  ELSE IF f = "error" THEN Resolve([session |-> Null], ErrAuth)
       ELSE Resolve([session |-> IF sess = NoUser THEN Null ELSE User(sess)], Null)

\* supabase.auth.getUser: the current user, a null user, or an error with a
\* null user (what the platform reports for a missing or expired session)
auth_getUser(sess, f) ==
  IF f = "throw" THEN Reject(ErrNetwork)
  ELSE IF f = "error" THEN Resolve([user |-> Null], ErrAuth)
       ELSE Resolve([user |-> IF sess = NoUser THEN Null ELSE User(sess)], Null)

\* supabase.auth.resetPasswordForEmail
auth_resetPasswordForEmail(email, f) ==
  IF f = "throw" THEN Reject(ErrNetwork)
  ELSE IF f = "error" THEN Resolve(Null, ErrAuth)
       ELSE Resolve([sent |-> email], Null)

\* rows of paginas with nombre = pageName
PageRows(table, pageName) == {r \in table : r.nombre = pageName}

\* the upsert with ignoreDuplicates: true: a row of an existing nombre is skipped
Upsert_ignoreDuplicates(table, row) ==
  IF \E r \in table : r.nombre = row.nombre THEN table ELSE table \cup {row}

\* .upsert(row, {onConflict: 'nombre', ignoreDuplicates: false}): the row
\* replaces the row of the same nombre, or is inserted
Upsert(table, row) == {r \in table : r.nombre # row.nombre} \cup {row}

\* the round trip of the upsert: the new table and what the call resolves to;
\* returning says whether the platform sends the written rows back
paginas_upsert(table, row, f, returning) ==
  IF f = "throw" THEN [table |-> table, out |-> Reject(ErrNetwork)]
  ELSE IF f = "error" THEN [table |-> table, out |-> Resolve(Null, ErrDb)]
  ELSE [table |-> Upsert(table, row),
        out |-> Resolve(IF returning THEN [rows |-> <<row>>] ELSE Null, Null)]

\* .select('contenido_html, actualizado_en').eq('nombre', pageName).single()
paginas_select_single(table, pageName, f) ==
  IF f = "throw" THEN Reject(ErrNetwork)
  ELSE IF f = "error" THEN Resolve(Null, ErrDb)
  ELSE IF Cardinality(PageRows(table, pageName)) # 1 THEN Resolve(Null, ErrNoRows)
  ELSE LET r == CHOOSE x \in PageRows(table, pageName) : TRUE
       IN  Resolve([contenido_html |-> r.contenido_html,
                    actualizado_en |-> r.actualizado_en], Null)

\* .select('role').eq('id', id).single() on profiles
profiles_select_role(table, id, f) ==
  IF f = "throw" THEN Reject(ErrNetwork)
  ELSE IF f = "error" THEN Resolve(Null, ErrDb)
  ELSE IF id \notin DOMAIN table THEN Resolve(Null, ErrNoRows)
  ELSE Resolve([role |-> table[id].role], Null)

\* sequences of all the rows of a set, each once
RECURSIVE Perms(_)
Perms(S) ==
  IF S = {} THEN {<<>>}
  ELSE UNION {{<<x>> \o p : p \in Perms(S \ {x})} : x \in S}

\* .order('created_at', {ascending: false}) over all profiles
ProfilesNewestFirst(table) ==
  {p \in Perms({table[id] : id \in DOMAIN table}) :
     \A i \in 1..(Len(p) - 1) : p[i].created_at >= p[i + 1].created_at}

\* the update without .eq('id', userId): every row gets the role
UpdateRole_allRows(table, userId, newRole) ==
  [id \in DOMAIN table |-> [table[id] EXCEPT !.role = newRole]]

\* .update({role: newRole}).eq('id', userId): the rows with that id get the role
UpdateRole(table, userId, newRole) ==
  [id \in DOMAIN table |->
     IF id = userId THEN [table[id] EXCEPT !.role = newRole] ELSE table[id]]

profiles_update(table, userId, newRole, f, returning) ==
  IF f = "throw" THEN [table |-> table, out |-> Reject(ErrNetwork)]
  ELSE IF f = "error" THEN [table |-> table, out |-> Resolve(Null, ErrDb)]
  ELSE [table |-> UpdateRole(table, userId, newRole),
        out |-> Resolve(IF returning /\ userId \in DOMAIN table
                        THEN [rows |-> <<UpdateRole(table, userId, newRole)[userId]>>]
                        ELSE Null, Null)]

\* rows of pagina_historial: the table holds table[<<name, time>>] rows of
\* that page name and time; n numbers them and stands for the columns
\* contenido_html and usuario_id, in which such rows differ
HistoryRows(table) ==
  UNION {{[nombre_pagina |-> k[1], actualizado_en |-> k[2], n |-> n] :
            n \in 1..table[k]} : k \in DOMAIN table}

\* .eq('nombre_pagina', pageName)
HistoryOf(table, pageName) ==
  {r \in HistoryRows(table) : r.nombre_pagina = pageName}

\* .order('actualizado_en', {ascending: false}); the platform leaves the order
\* of rows of equal time open: tie says which of them it puts first
RECURSIVE OrderByTimeDesc(_, _)
OrderByTimeDesc(rows, tie) ==
  IF rows = {} THEN <<>>
  ELSE LET top   == {r \in rows : \A q \in rows : q.actualizado_en <= r.actualizado_en}
           first == CHOOSE r \in top :
                      \A q \in top : IF tie = "low" THEN r.n <= q.n ELSE r.n >= q.n
       IN  <<first>> \o OrderByTimeDesc(rows \ {first}, tie)

\* .limit(n)
Limit(rows, n) == SubSeq(rows, 1, IF Len(rows) < n THEN Len(rows) ELSE n)

\* the history query without .limit(10)
HistoryQuery_noLimit(table, pageName, tie) ==
  OrderByTimeDesc(HistoryOf(table, pageName), tie)

\* the rows the history query selects
HistoryQuery(table, pageName, tie) ==
  Limit(OrderByTimeDesc(HistoryOf(table, pageName), tie), HistoryLimit)

\* .select('contenido_html, actualizado_en, usuario_id'): the columns sent back
HistoryColumns(rows) ==
  [i \in 1..Len(rows) |->
     [actualizado_en |-> rows[i].actualizado_en, contenido_html |-> rows[i].n,
      usuario_id |-> rows[i].n]]

pagina_historial_select(table, pageName, tie, f) ==
  IF f = "throw" THEN Reject(ErrNetwork)
  ELSE IF f = "error" THEN Resolve(Null, ErrDb)
  ELSE Resolve([rows |-> HistoryColumns(HistoryQuery(table, pageName, tie))], Null)

\* ------------------------------------------------------------------------
\* The exported functions.  Each is the completion of its try block followed
\* by its catch clause.  A step of a function with several awaits yields
\* Continue(locals) when the function goes on to its next await.
\* ------------------------------------------------------------------------
Continue(locals) == [kind |-> "continue", value |-> locals, error |-> Null]

\* the same without the throw: the error is handed on next to the data
ThrowOrReturnData_noThrow(r) ==
  IF r.kind = "reject" THEN Throw(r.error)
  ELSE Return([data |-> r.data, error |-> r.error])

\* `if (error) throw error; return { data, error: null }` after an await
ThrowOrReturnData(r) ==
  IF r.kind = "reject" THEN Throw(r.error)
  ELSE IF r.error # Null THEN Throw(r.error)
  ELSE Return([data |-> r.data, error |-> Null])

\* catch (error) { console.error(...); return { data: null, error } }
CatchDataError(c) ==
  IF c.kind = "throw" THEN Return([data |-> Null, error |-> c.error]) ELSE c

\* authAPI.signUp
signUp_try(email, f) == ThrowOrReturnData(auth_signUp(email, f))
signUp(email, f) == CatchDataError(signUp_try(email, f))

\* authAPI.signIn
signIn_try(email, f) == ThrowOrReturnData(auth_signInWithPassword(email, f))
signIn(email, f) == CatchDataError(signIn_try(email, f))

\* authAPI.signOut: both returns carry the error field only
signOut_try(f) ==
  LET r == auth_signOut(f)
  IN  IF r.kind = "reject" THEN Throw(r.error)
      ELSE IF r.error # Null THEN Throw(r.error)
      ELSE Return([error |-> Null])
signOut(f) ==
  LET c == signOut_try(f)
  IN  IF c.kind = "throw" THEN Return([error |-> c.error]) ELSE c

\* authAPI.getSession
getSession_try(sess, f) == ThrowOrReturnData(auth_getSession(sess, f))
getSession(sess, f) == CatchDataError(getSession_try(sess, f))

\* authAPI.getUser
getUser_try(sess, f) == ThrowOrReturnData(auth_getUser(sess, f))
getUser(sess, f) == CatchDataError(getUser_try(sess, f))

\* authAPI.resetPassword: window.location.origin is read inside the try
\* block, before the call is made
resetPassword_try(email, env, f) ==
  IF env # "browser" THEN Throw(ErrRef)
  ELSE ThrowOrReturnData(auth_resetPasswordForEmail(email, f))
\* the same with window.location.origin read before the try block
resetPassword_originOutsideTry(email, env, f) ==
  IF env # "browser" THEN Throw(ErrRef)
  ELSE CatchDataError(resetPassword_try(email, env, f))
resetPassword(email, env, f) == CatchDataError(resetPassword_try(email, env, f))

\* contentAPI.savePageContent up to its second await:
\* const { data: userData } = await authAPI.getUser()
\* if (!userData.user) throw new Error('Usuario no autenticado')
savePageContent_getUser(sess, f) ==
  LET userData == getUser(sess, f).value.data
  IN  IF userData = Null THEN Throw(ErrType)
      ELSE IF userData.user = Null THEN Throw(Error("Usuario no autenticado"))
      ELSE Continue(userData)

\* the row savePageContent sends
PageRow(pageName, content, userData, now) ==
  [nombre |-> pageName, contenido_html |-> content,
   usuario_id |-> userData.user.id, actualizado_en |-> now]

\* contentAPI.savePageContent after the upsert
savePageContent_upsert(r) == ThrowOrReturnData(r)

\* loadPageContent without the exception for the code PGRST116
loadPageContent_try_noSwallow(table, pageName, f) ==
  ThrowOrReturnData(paginas_select_single(table, pageName, f))

\* contentAPI.loadPageContent
loadPageContent_try(table, pageName, f) ==
  LET r == paginas_select_single(table, pageName, f)
  IN  IF r.kind = "reject" THEN Throw(r.error)
      ELSE IF r.error # Null /\ r.error.code # "PGRST116" THEN Throw(r.error)
      ELSE Return([data |-> r.data, error |-> Null])
loadPageContent(table, pageName, f) ==
  CatchDataError(loadPageContent_try(table, pageName, f))

\* contentAPI.getPageHistory
getPageHistory_try(table, pageName, tie, f) ==
  ThrowOrReturnData(pagina_historial_select(table, pageName, tie, f))
getPageHistory(table, pageName, tie, f) ==
  CatchDataError(getPageHistory_try(table, pageName, tie, f))

\* adminAPI.getUsers and adminAPI.updateUserRole up to the profile lookup:
\* if (!userData.user) throw new Error('No autenticado')
admin_getUser(sess, f) ==
  LET userData == getUser(sess, f).value.data
  IN  IF userData = Null THEN Throw(ErrType)
      ELSE IF userData.user = Null THEN Throw(Error("No autenticado"))
      ELSE Continue(userData)

\* the role test letting 'editor' pass as well
admin_checkRole_editorPasses(r) ==
  IF r.kind = "reject" THEN Throw(r.error)
  ELSE LET profile == r.data
       IN  IF profile = Null THEN Throw(ErrType)
           ELSE IF profile.role \notin {"admin", "editor"} THEN Throw(Error("No autorizado"))
           ELSE Continue(profile)

\* no role test at all
admin_checkRole_noRoleTest(r) ==
  IF r.kind = "reject" THEN Throw(r.error)
  ELSE LET profile == r.data
       IN  IF profile = Null THEN Throw(ErrType) ELSE Continue(profile)

\* const { data: profile } = await ...single()
\* if (profile.role !== 'admin') throw new Error('No autorizado')
admin_checkRole(r) ==
  IF r.kind = "reject" THEN Throw(r.error)
  ELSE LET profile == r.data
       IN  IF profile = Null THEN Throw(ErrType)
           ELSE IF profile.role # "admin" THEN Throw(Error("No autorizado"))
           ELSE Continue(profile)

\* adminAPI.getUsers after the select of all profiles
getUsers_select(list, f) ==
  ThrowOrReturnData(IF f = "throw" THEN Reject(ErrNetwork)
                    ELSE IF f = "error" THEN Resolve(Null, ErrDb)
                    ELSE Resolve([rows |-> list], Null))

\* adminAPI.updateUserRole after the update
updateUserRole_update(r) == ThrowOrReturnData(r)

\* ------------------------------------------------------------------------
\* State machine
\* ------------------------------------------------------------------------
NoArgs == [pageName |-> "-", content |-> "-", userId |-> "-", newRole |-> "-",
           email |-> "-"]

\* a function between two awaits: pc is the await it is at, userData its
\* local, issued the remote calls it has made, checkedRole the caller's role
\* in profiles when the function looked it up
Idle == [name |-> "idle", pc |-> "-", args |-> NoArgs, userData |-> Null,
         issued |-> {}, checkedRole |-> "-"]

\* a completed function: completion is what its caller received, raised the
\* failure thrown inside its try block, pc and fault the await it ended on and
\* what that round trip did, callerRole the caller's role in profiles at that
\* await, rows the history rows selected
NoRes == [client |-> "-", name |-> "-", args |-> NoArgs,
          completion |-> Return(Null), raised |-> Null, issued |-> {},
          pc |-> "-", fault |-> "-", checkedRole |-> "-", callerRole |-> "-",
          rows |-> <<>>]

NoSave == [content |-> "-", n |-> 0]

\* the profiles row of a user
Profile(id, role) ==
  [id |-> id, email |-> id, role |-> role, created_at |-> IF id = "u1" THEN 1 ELSE 2]

\* role of a user in the table, "-" without a row
RoleOf(table, id) == IF id \in DOMAIN table THEN table[id].role ELSE "-"

tables == <<profiles, paginas, pagina_historial, lastSaved>>

\* a function with one await: invoked, answered and returned in one step
Single(c, name, args, completion, raised, call, f) ==
  /\ res' = [NoRes EXCEPT !.client = c, !.name = name, !.args = args,
                          !.completion = completion, !.raised = raised,
                          !.issued = call, !.pc = name, !.fault = f]
  /\ UNCHANGED op

SignUp(c, email, f) ==
  /\ Single(c, "signUp", [NoArgs EXCEPT !.email = email],
            signUp(email, f), signUp_try(email, f).error, {"auth.signUp"}, f)
  /\ session' = IF signUp_try(email, f).kind = "return"
                THEN [session EXCEPT ![c] = email] ELSE session
  /\ UNCHANGED tables

SignIn(c, email, f) ==
  /\ Single(c, "signIn", [NoArgs EXCEPT !.email = email],
            signIn(email, f), signIn_try(email, f).error,
            {"auth.signInWithPassword"}, f)
  /\ session' = IF signIn_try(email, f).kind = "return"
                THEN [session EXCEPT ![c] = email] ELSE session
  /\ UNCHANGED tables

SignOut(c, f) ==
  /\ Single(c, "signOut", NoArgs, signOut(f), signOut_try(f).error, {"auth.signOut"}, f)
  /\ session' = IF signOut_try(f).kind = "return"
                THEN [session EXCEPT ![c] = NoUser] ELSE session
  /\ UNCHANGED tables

GetSession(c, f) ==
  /\ Single(c, "getSession", NoArgs, getSession(session[c], f),
            getSession_try(session[c], f).error, {"auth.getSession"}, f)
  /\ UNCHANGED <<session, tables>>

GetUser(c, f) ==
  /\ Single(c, "getUser", NoArgs, getUser(session[c], f),
            getUser_try(session[c], f).error, {"auth.getUser"}, f)
  /\ UNCHANGED <<session, tables>>

ResetPassword(c, email, env, f) ==
  /\ Single(c, "resetPassword", [NoArgs EXCEPT !.email = email],
            resetPassword(email, env, f), resetPassword_try(email, env, f).error,
            IF env = "browser" THEN {"auth.resetPasswordForEmail"} ELSE {}, f)
  /\ UNCHANGED <<session, tables>>

LoadPageContent(c, pageName, f) ==
  /\ Single(c, "loadPageContent", [NoArgs EXCEPT !.pageName = pageName],
            loadPageContent(paginas, pageName, f),
            loadPageContent_try(paginas, pageName, f).error, {"paginas.select"}, f)
  /\ UNCHANGED <<session, tables>>

GetPageHistory(c, pageName, tie, f) ==
  /\ res' = [NoRes EXCEPT
       !.client = c, !.name = "getPageHistory",
       !.args = [NoArgs EXCEPT !.pageName = pageName],
       !.completion = getPageHistory(pagina_historial, pageName, tie, f),
       !.raised = getPageHistory_try(pagina_historial, pageName, tie, f).error,
       !.issued = {"pagina_historial.select"},
       !.pc = "getPageHistory", !.fault = f,
       !.rows = IF f = "ok" THEN HistoryQuery(pagina_historial, pageName, tie) ELSE <<>>]
  /\ UNCHANGED <<op, session, tables>>

\* a step of a function with several awaits: s is what the step came to
\* at its await `at`, answered with fault f; it goes on to the await `next` or
\* ends, through the catch clause when it threw
Step(c, name, args, at, next, s, f, issued, checkedRole, callerRole) ==
  IF s.kind = "continue"
  THEN /\ op' = [op EXCEPT ![c] = [name |-> name, pc |-> next, args |-> args,
                                    userData |-> s.value, issued |-> issued,
                                    checkedRole |-> checkedRole]]
       /\ UNCHANGED res
  ELSE /\ op' = [op EXCEPT ![c] = Idle]
       /\ res' = [NoRes EXCEPT !.client = c, !.name = name, !.args = args,
                               !.completion = CatchDataError(s),
                               !.raised = s.error, !.issued = issued,
                               !.pc = at, !.fault = f,
                               !.checkedRole = checkedRole,
                               !.callerRole = callerRole]

SavePageContent_getUser(c, pageName, content, f) ==
  /\ op[c] = Idle
  /\ Step(c, "savePageContent",
          [NoArgs EXCEPT !.pageName = pageName, !.content = content],
          "getUser", "upsert", savePageContent_getUser(session[c], f), f,
          {"auth.getUser"}, "-", "-")
  /\ UNCHANGED <<session, tables>>

SavePageContent_upsert(c, now, f, returning) ==
  /\ op[c].name = "savePageContent"
  /\ op[c].pc = "upsert"
  /\ LET w == paginas_upsert(paginas,
                PageRow(op[c].args.pageName, op[c].args.content, op[c].userData, now),
                f, returning)
         s == savePageContent_upsert(w.out)
     IN  /\ paginas' = w.table
         /\ lastSaved' = IF s.kind = "return"
                         THEN [lastSaved EXCEPT ![op[c].args.pageName] =
                                 [content |-> op[c].args.content, n |-> @.n + 1]]
                         ELSE lastSaved
         /\ Step(c, "savePageContent", op[c].args, "upsert", "-", s, f,
                 op[c].issued \cup {"paginas.upsert"}, "-", "-")
  /\ UNCHANGED <<session, profiles, pagina_historial>>

\* first await of getUsers and updateUserRole
Admin_getUser(c, name, args, f) ==
  /\ op[c] = Idle
  /\ Step(c, name, args, "getUser", "profile", admin_getUser(session[c], f), f,
          {"auth.getUser"}, "-", "-")
  /\ UNCHANGED <<session, tables>>

\* second await of getUsers and updateUserRole: the lookup of the caller's role
Admin_checkRole(c, name, next, f) ==
  /\ op[c].name = name
  /\ op[c].pc = "profile"
  /\ LET s == admin_checkRole(profiles_select_role(profiles, op[c].userData.user.id, f))
     IN  Step(c, name, op[c].args, "profile", next,
              IF s.kind = "continue" THEN Continue(op[c].userData) ELSE s, f,
              op[c].issued \cup {"profiles.select.role"},
              RoleOf(profiles, op[c].userData.user.id),
              RoleOf(profiles, op[c].userData.user.id))
  /\ UNCHANGED <<session, tables>>

GetUsers_getUser(c, f) == Admin_getUser(c, "getUsers", NoArgs, f)

GetUsers_checkRole(c, f) == Admin_checkRole(c, "getUsers", "select", f)

GetUsers_select(c, f) ==
  /\ op[c].name = "getUsers"
  /\ op[c].pc = "select"
  /\ \E list \in ProfilesNewestFirst(profiles) :
       Step(c, "getUsers", op[c].args, "select", "-", getUsers_select(list, f), f,
            op[c].issued \cup {"profiles.select"}, op[c].checkedRole,
            RoleOf(profiles, op[c].userData.user.id))
  /\ UNCHANGED <<session, tables>>

UpdateUserRole_getUser(c, userId, newRole, f) ==
  Admin_getUser(c, "updateUserRole",
                [NoArgs EXCEPT !.userId = userId, !.newRole = newRole], f)

UpdateUserRole_checkRole(c, f) == Admin_checkRole(c, "updateUserRole", "update", f)

\* updateUserRole reading the caller's role again with its write
UpdateUserRole_update_reverified(c, f, returning) ==
  /\ op[c].name = "updateUserRole"
  /\ op[c].pc = "update"
  /\ LET role == RoleOf(profiles, op[c].userData.user.id)
         w == IF role = "admin"
              THEN profiles_update(profiles, op[c].args.userId, op[c].args.newRole,
                                   f, returning)
              ELSE [table |-> profiles, out |-> Reject(Error("No autorizado"))]
     IN  /\ profiles' = w.table
         /\ Step(c, "updateUserRole", op[c].args, "update", "-",
                 updateUserRole_update(w.out), f,
                 op[c].issued \cup {"profiles.update"}, op[c].checkedRole, role)
  /\ UNCHANGED <<session, paginas, pagina_historial, lastSaved>>

UpdateUserRole_update(c, f, returning) ==
  /\ op[c].name = "updateUserRole"
  /\ op[c].pc = "update"
  /\ LET w == profiles_update(profiles, op[c].args.userId, op[c].args.newRole,
                              f, returning)
     IN  /\ profiles' = w.table
         /\ Step(c, "updateUserRole", op[c].args, "update", "-",
                 updateUserRole_update(w.out), f,
                 op[c].issued \cup {"profiles.update"}, op[c].checkedRole,
                 RoleOf(profiles, op[c].userData.user.id))
  /\ UNCHANGED <<session, paginas, pagina_historial, lastSaved>>

\* an invocation is started, at most max in a behaviour; a later step of one
Invoke(max) == calls < max /\ calls' = calls + 1
Resume == UNCHANGED calls

\* the sessions at the start: c1 is the browser of u1 and c2 that of u2,
\* each signed in or not
Sessions ==
  {s \in [Clients -> UserIds \cup {NoUser}] :
     s["c1"] \in {"u1", NoUser} /\ s["c2"] \in {"u2", NoUser}}

\* the profiles at the start: each user an admin, a plain user, or without a row
ProfileTables ==
  UNION {{[id \in S |-> Profile(id, r[id])] : r \in [S -> {"admin", "user"}]} :
           S \in SUBSET UserIds}

\* ---- all operations, from any sessions and profiles
Init ==
  /\ session \in Sessions
  /\ profiles \in ProfileTables
  /\ paginas \in {{}, {[nombre |-> "home", contenido_html |-> "<p>hi</p>",
                        usuario_id |-> "u1", actualizado_en |-> 1]}}
  /\ pagina_historial = [k \in PageNames \X HistTimes |-> IF k = <<"home", 1>> THEN 1 ELSE 0]
  /\ lastSaved = [p \in PageNames |->
                    IF PageRows(paginas, p) = {} THEN NoSave
                    ELSE [content |-> "<p>hi</p>", n |-> 1]]
  /\ op = [c \in Clients |-> Idle]
  /\ res = NoRes
  /\ calls = 0

Next ==
  \/ \E c \in Clients, e \in UserIds, f \in Faults : Invoke(MaxCalls) /\ SignUp(c, e, f)
  \/ \E c \in Clients, e \in UserIds, f \in Faults : Invoke(MaxCalls) /\ SignIn(c, e, f)
  \/ \E c \in Clients, f \in Faults : Invoke(MaxCalls) /\ SignOut(c, f)
  \/ \E c \in Clients, f \in Faults : Invoke(MaxCalls) /\ GetSession(c, f)
  \/ \E c \in Clients, f \in Faults : Invoke(MaxCalls) /\ GetUser(c, f)
  \/ \E c \in Clients, e \in UserIds, v \in Envs, f \in Faults :
       Invoke(MaxCalls) /\ ResetPassword(c, e, v, f)
  \/ \E c \in Clients, n \in PageNames, f \in Faults :
       Invoke(MaxCalls) /\ LoadPageContent(c, n, f)
  \/ \E c \in Clients, n \in PageNames, t \in {"low", "high"}, f \in Faults :
       Invoke(MaxCalls) /\ GetPageHistory(c, n, t, f)
  \/ \E c \in Clients, n \in PageNames, h \in Contents, f \in Faults :
       Invoke(MaxCalls) /\ SavePageContent_getUser(c, n, h, f)
  \/ \E c \in Clients, t \in Times, f \in Faults, r \in BOOLEAN :
       Resume /\ SavePageContent_upsert(c, t, f, r)
  \/ \E c \in Clients, f \in Faults : Invoke(MaxCalls) /\ GetUsers_getUser(c, f)
  \/ \E c \in Clients, f \in Faults : Resume /\ GetUsers_checkRole(c, f)
  \/ \E c \in Clients, f \in Faults : Resume /\ GetUsers_select(c, f)
  \/ \E c \in Clients, u \in UserIds, r \in Roles, f \in Faults :
       Invoke(MaxCalls) /\ UpdateUserRole_getUser(c, u, r, f)
  \/ \E c \in Clients, f \in Faults : Resume /\ UpdateUserRole_checkRole(c, f)
  \/ \E c \in Clients, f \in Faults, r \in BOOLEAN :
       Resume /\ UpdateUserRole_update(c, f, r)

Spec == Init /\ [][Next]_vars

\* ---- the content functions, concurrently, from an empty paginas
InitContent ==
  /\ session \in Sessions
  /\ profiles = [id \in UserIds |-> Profile(id, "user")]
  /\ paginas = {}
  /\ pagina_historial = [k \in PageNames \X HistTimes |-> 0]
  /\ lastSaved = [p \in PageNames |-> NoSave]
  /\ op = [c \in Clients |-> Idle]
  /\ res = NoRes
  /\ calls = 0

NextContent ==
  \/ \E c \in Clients, n \in PageNames, h \in Contents, f \in Faults :
       Invoke(MaxContentCalls) /\ SavePageContent_getUser(c, n, h, f)
  \/ \E c \in Clients, t \in Times, f \in Faults, r \in BOOLEAN :
       Resume /\ SavePageContent_upsert(c, t, f, r)
  \/ \E c \in Clients, n \in PageNames, f \in Faults :
       Invoke(MaxContentCalls) /\ LoadPageContent(c, n, f)

SpecContent == InitContent /\ [][NextContent]_vars

\* ---- the admin functions, concurrently
InitAdmin ==
  /\ session \in Sessions
  /\ profiles \in ProfileTables
  /\ paginas = {}
  /\ pagina_historial = [k \in PageNames \X HistTimes |-> 0]
  /\ lastSaved = [p \in PageNames |-> NoSave]
  /\ op = [c \in Clients |-> Idle]
  /\ res = NoRes
  /\ calls = 0

NextAdmin ==
  \/ \E c \in Clients, f \in Faults : Invoke(MaxAdminCalls) /\ GetUsers_getUser(c, f)
  \/ \E c \in Clients, f \in Faults : Resume /\ GetUsers_checkRole(c, f)
  \/ \E c \in Clients, f \in Faults : Resume /\ GetUsers_select(c, f)
  \/ \E c \in Clients, u \in UserIds, r \in Roles, f \in Faults :
       Invoke(MaxAdminCalls) /\ UpdateUserRole_getUser(c, u, r, f)
  \/ \E c \in Clients, f \in Faults : Resume /\ UpdateUserRole_checkRole(c, f)
  \/ \E c \in Clients, f \in Faults, r \in BOOLEAN :
       Resume /\ UpdateUserRole_update(c, f, r)

SpecAdmin == InitAdmin /\ [][NextAdmin]_vars

\* ---- the history query, over every pagina_historial of up to MaxHist rows
\* per page name and time
InitHistory ==
  /\ session = [c \in Clients |-> NoUser]
  /\ profiles = [id \in UserIds |-> Profile(id, "user")]
  /\ paginas = {}
  /\ pagina_historial \in [PageNames \X HistTimes -> 0..MaxHist]
  /\ lastSaved = [p \in PageNames |-> NoSave]
  /\ op = [c \in Clients |-> Idle]
  /\ res = NoRes
  /\ calls = 0

NextHistory ==
  \E c \in Clients, n \in PageNames, t \in {"low", "high"}, f \in Faults :
    Invoke(MaxCalls) /\ GetPageHistory(c, n, t, f)

SpecHistory == InitHistory /\ [][NextHistory]_vars

\* ------------------------------------------------------------------------
\* Properties
\* ------------------------------------------------------------------------
\* the record the caller of the last completed function received
V == res.completion.value

Completed == res.name # "-"

HasData(v) == "data" \in DOMAIN v /\ v.data # Null
HasError(v) == v.error # Null

\* C1 as stated: every returned record has exactly one of data / error
\* non-null, never both and never neither.
C1_ExactlyOneOfDataError ==
  Completed =>
    /\ res.completion.kind = "return"
    /\ HasData(V) # HasError(V)

\* C1 amended: no returned record has both data and error non-null; a record
\* with neither is returned only without an error, by signOut (which returns
\* no data field), loadPageContent, savePageContent and updateUserRole.
C1_NeverBothDataAndError ==
  Completed =>
    /\ res.completion.kind = "return"
    /\ ~(HasData(V) /\ HasError(V))
    /\ (~HasData(V) /\ ~HasError(V)) =>
         res.name \in {"signOut", "loadPageContent", "savePageContent", "updateUserRole"}

\* a successful signOut returned { error: null }
C1_Witness ==
  /\ res.name = "signOut"
  /\ res.completion.kind = "return"
  /\ V = [error |-> Null]

\* C2: no function lets a failure reach its caller: every function returns,
\* and when a failure was thrown while it ran the error field of the returned
\* record is that failure.
C2_NoFailurePropagates ==
  Completed =>
    /\ res.completion.kind = "return"
    /\ res.raised # Null => V.error = res.raised

\* resetPassword without a browser origin returned the ReferenceError
C2_Witness ==
  /\ res.name = "resetPassword"
  /\ res.raised = ErrRef
  /\ res.completion.kind = "return"
  /\ V = [data |-> Null, error |-> ErrRef]

\* C3 as stated: savePageContent without a current user returns
\* {data: null, error: 'Usuario no autenticado'}, whether getUser reports a
\* null user or an error.
C3_UnauthenticatedSave ==
  ( /\ res.name = "savePageContent"
    /\ res.pc = "getUser"
    /\ session[res.client] = NoUser
    /\ res.fault \in {"ok", "error"} )
  => /\ res.completion.kind = "return"
     /\ V = [data |-> Null, error |-> Error("Usuario no autenticado")]

\* C4: getUsers and updateUserRole of a caller whose profile role is not
\* 'admin' return {data: null, error} with 'No autorizado' and get no further:
\* no list is selected, no update is made, and no function is past its role
\* check with another role than 'admin'.
C4_NonAdminRejected ==
  /\ ( /\ res.name \in {"getUsers", "updateUserRole"}
       /\ res.pc = "profile"
       /\ res.checkedRole \in Roles \ {"admin"} )
     => /\ res.completion.kind = "return"
        /\ V.data = Null
        /\ V.error # Null
        /\ res.fault = "ok" => V.error = Error("No autorizado")
        /\ res.issued \cap {"profiles.select", "profiles.update"} = {}
  /\ \A c \in Clients : op[c].pc \in {"select", "update"} => op[c].checkedRole = "admin"
  /\ res.pc \in {"select", "update"} => res.checkedRole = "admin"

\* updateUserRole of a plain user was refused
C4_Witness ==
  /\ res.name = "updateUserRole"
  /\ res.pc = "profile"
  /\ res.checkedRole = "user"
  /\ V = [data |-> Null, error |-> Error("No autorizado")]

\* C5: loadPageContent returns {data: null, error: null} when no row has the
\* name, {data: null, error} when the fetch fails otherwise, and the content
\* and timestamp of the row when there is one.
C5_AbsenceIsNotFailure ==
  res.name = "loadPageContent" =>
    LET rows == PageRows(paginas, res.args.pageName)
    IN  /\ res.completion.kind = "return"
        /\ (res.fault = "ok" /\ rows = {}) => V = [data |-> Null, error |-> Null]
        /\ res.fault = "error" => V = [data |-> Null, error |-> ErrDb]
        /\ res.fault = "throw" => V = [data |-> Null, error |-> ErrNetwork]
        /\ (res.fault = "ok" /\ rows # {}) =>
             \E r \in rows :
               V = [data |-> [contenido_html |-> r.contenido_html,
                              actualizado_en |-> r.actualizado_en],
                    error |-> Null]

\* loadPageContent of a name without a row returned {data: null, error: null}
C5_Witness ==
  /\ res.name = "loadPageContent"
  /\ res.fault = "ok"
  /\ PageRows(paginas, res.args.pageName) = {}
  /\ V = [data |-> Null, error |-> Null]

\* C6: paginas holds at most one row per name, and loadPageContent of a name
\* returns the content of the last save of that name that succeeded.
C6_LastSaveIsLoaded ==
  \A n \in PageNames :
    /\ Cardinality(PageRows(paginas, n)) <= 1
    /\ lastSaved[n].n > 0 =>
         LET l == loadPageContent(paginas, n, "ok")
         IN  /\ l.kind = "return"
             /\ l.value.error = Null
             /\ l.value.data # Null
             /\ l.value.data.contenido_html = lastSaved[n].content

\* a name was saved twice, the second time by u2 with the other content
C6_Witness ==
  \E n \in PageNames :
    /\ lastSaved[n] = [content |-> "<p>bye</p>", n |-> 2]
    /\ \E r \in PageRows(paginas, n) : r.usuario_id = "u2"
    /\ res.name = "savePageContent"
    /\ res.client = "c2"

\* C7: a successful getPageHistory returns at most 10 entries, all of the
\* page name, none later than the entry before it, and none older than an
\* entry of the name that it leaves out.
C7_HistoryNewestTen ==
  (res.name = "getPageHistory" /\ res.fault = "ok") =>
    LET all == HistoryOf(pagina_historial, res.args.pageName)
        got == {res.rows[i] : i \in 1..Len(res.rows)}
    IN  /\ Len(res.rows) <= 10
        /\ Len(res.rows) = IF Cardinality(all) < 10 THEN Cardinality(all) ELSE 10
        /\ Cardinality(got) = Len(res.rows)
        /\ got \subseteq all
        /\ \A i \in 1..Len(res.rows) : res.rows[i].nombre_pagina = res.args.pageName
        /\ \A i \in 1..(Len(res.rows) - 1) :
             res.rows[i].actualizado_en >= res.rows[i + 1].actualizado_en
        /\ \A o \in all \ got : \A r \in got : o.actualizado_en <= r.actualizado_en
        /\ V.error = Null
        /\ Len(V.data.rows) = Len(res.rows)
        /\ \A i \in 1..Len(res.rows) :
             V.data.rows[i].actualizado_en = res.rows[i].actualizado_en

\* a name with more than 10 rows of two times was queried
C7_Witness ==
  /\ res.name = "getPageHistory"
  /\ res.fault = "ok"
  /\ Cardinality(HistoryOf(pagina_historial, res.args.pageName)) > 10
  /\ Len(res.rows) = 10
  /\ res.rows[1].actualizado_en > res.rows[10].actualizado_en

\* the step in which client c's updateUserRole makes its update and the
\* platform accepts it
UpdateAccepted(c) ==
  /\ op[c].name = "updateUserRole"
  /\ op[c].pc = "update"
  /\ op'[c] = Idle
  /\ res'.client = c
  /\ res'.fault = "ok"

\* C8: an accepted update of updateUserRole(userId, newRole) returns without an
\* error for any newRole and changes the role of the profile with id = userId
\* to newRole and nothing else.
C8_RoleWrittenThrough ==
  [][\A c \in Clients :
       UpdateAccepted(c) =>
         /\ res'.completion.kind = "return"
         /\ res'.completion.value.error = Null
         /\ DOMAIN profiles' = DOMAIN profiles
         /\ \A id \in DOMAIN profiles :
              /\ profiles'[id].id = profiles[id].id
              /\ profiles'[id].email = profiles[id].email
              /\ profiles'[id].created_at = profiles[id].created_at
              /\ profiles'[id].role =
                   IF id = op[c].args.userId THEN op[c].args.newRole
                   ELSE profiles[id].role]_vars

\* an admin gave another user the role 'editor'
C8_Witness ==
  /\ res.name = "updateUserRole"
  /\ res.pc = "update"
  /\ res.checkedRole = "admin"
  /\ res.args.newRole = "editor"
  /\ res.args.userId \in DOMAIN profiles
  /\ res.args.userId # session[res.client]
  /\ V.error = Null
  /\ profiles[res.args.userId].role = "editor"
  /\ \E id \in DOMAIN profiles : profiles[id].role # "editor"

\* C9: updateUserRole does not look at the caller's role again when it
\* writes: once past the check, its update is made and takes effect whatever
\* the caller's role has become.
C9_WriteIsNotReverified ==
  ( /\ res.name = "updateUserRole"
    /\ res.pc = "update"
    /\ res.fault = "ok" )
  => /\ res.checkedRole = "admin"
     /\ res.completion.kind = "return"
     /\ V.error = Null
     /\ res.args.userId \in DOMAIN profiles =>
          profiles[res.args.userId].role = res.args.newRole

\* the caller was an admin at the check, was not one any more at the write,
\* and its write to another profile took effect
C9_Witness ==
  /\ res.name = "updateUserRole"
  /\ res.pc = "update"
  /\ res.fault = "ok"
  /\ res.checkedRole = "admin"
  /\ res.callerRole = "user"
  /\ V.error = Null
  /\ res.args.userId \in DOMAIN profiles
  /\ res.args.userId # session[res.client]
  /\ res.args.newRole = "editor"
  /\ profiles[res.args.userId].role = "editor"

\* client c's function ends in this step
Ends(c) ==
  /\ res'.client = c
  /\ op'[c] = Idle
  /\ calls' # calls \/ op[c] # Idle

\* C10: a function that fails its precondition makes no write: savePageContent
\* that finds no user leaves paginas as it is, updateUserRole that finds no
\* user or another role than 'admin' leaves profiles as it is, and neither
\* gets to its upsert / update.
C10_FailedPreconditionWritesNothing ==
  [][\A c \in Clients :
       /\ (Ends(c) /\ res'.name = "savePageContent" /\ res'.pc = "getUser") =>
            /\ paginas' = paginas
            /\ "paginas.upsert" \notin res'.issued
       /\ (Ends(c) /\ res'.name = "updateUserRole" /\ res'.pc \in {"getUser", "profile"}) =>
            /\ profiles' = profiles
            /\ "profiles.update" \notin res'.issued
       /\ (op'[c].name = "savePageContent" /\ op'[c].pc = "upsert") =>
            /\ op'[c].userData # Null
            /\ op'[c].userData.user # Null
       /\ (op'[c].name = "updateUserRole" /\ op'[c].pc = "update") =>
            op'[c].checkedRole = "admin"]_vars

\* savePageContent without a user ended before its upsert
C10_Witness ==
  /\ res.name = "savePageContent"
  /\ res.pc = "getUser"
  /\ session[res.client] = NoUser
  /\ V.data = Null
  /\ V.error # Null
  /\ "paginas.upsert" \notin res.issued

====
